---- MODULE Spec2Model ----
(***************************************************************************)
(* A model of the tsc-options helpers: the Option container, the safe      *)
(* invocation wrappers, the mapping and unwrapping helpers, and the two    *)
(* asynchronous helpers optionalResolve and fetchWithOption.               *)
(*                                                                         *)
(* JavaScript values are tagged records; a call's outcome is a completion  *)
(* record: a normal return carrying a value, or a throw carrying an error. *)
(***************************************************************************)
EXTENDS Integers, Sequences, FiniteSets, TLC

VARIABLES
  op,        \* the synchronous helper called last ("start" before any call)
  input,     \* the arguments of that call
  ret,       \* the completion of that call, as its caller observes it
  calls,     \* how many times that call invoked the function it was given
  promise,   \* optionalResolve: per call, the state of the promise passed in
  resolvePc, \* optionalResolve: per call, where the async function stands
  resolved,  \* optionalResolve: per call, the state of the promise it returned
  fetchPc,   \* fetchWithOption: where the async function stands
  request,   \* fetchWithOption: the request it was given
  fetchLog,  \* the calls made to the platform fetch, in order
  response,  \* the state of the promise the platform fetch returned
  body,      \* the state of the promise response.json() returned
  fetched    \* the state of the promise fetchWithOption returned

vars == <<op, input, ret, calls, promise, resolvePc, resolved,
          fetchPc, request, fetchLog, response, body, fetched>>

syncVars    == <<op, input, ret, calls>>
resolveVars == <<promise, resolvePc, resolved>>
fetchVars   == <<fetchPc, request, fetchLog, response, body, fetched>>

(***************************************************************************)
(* Bounds of the model.                                                    *)
(***************************************************************************)
\* numbers 0..MaxNum (and 42) are the number values drawn as inputs
MaxNum == 1
\* how many optionalResolve calls may be in flight at once
MaxResolves == 2

(***************************************************************************)
(* JavaScript values.                                                      *)
(***************************************************************************)
Undefined == [t |-> "undefined"]
Null      == [t |-> "null"]
Bool(b)   == [t |-> "boolean", b |-> b]
Num(n)    == [t |-> "number", n |-> n]
NaN       == [t |-> "NaN"]
Str(s)    == [t |-> "string", s |-> s]
Obj(k)    == [t |-> "object", k |-> k]

Numbers == (0..MaxNum) \cup {42}

Val == {Undefined, Null, Bool(FALSE), Bool(TRUE), NaN, Str(""), Str("x"),
        Obj("a")} \cup {Num(n) : n \in Numbers}

\* ToBoolean, as `if (result)` applies it
Truthy(v) ==
  CASE v.t = "undefined" -> FALSE
    [] v.t = "null"      -> FALSE
    [] v.t = "boolean"   -> v.b
    [] v.t = "number"    -> v.n # 0
    [] v.t = "NaN"       -> FALSE
    [] v.t = "string"    -> v.s # ""
    [] OTHER             -> TRUE

\* new Error(message)
Error(message) == [name |-> "Error", message |-> message]
TypeError      == [name |-> "TypeError", message |-> "Cannot read properties"]

Return(v) == [kind |-> "return", value |-> v]
Throw(e)  == [kind |-> "throw", value |-> e]

(***************************************************************************)
(* The functions callers pass in: each is a name (and, for a constant      *)
(* function, the value it returns); Call gives the completion of f(x).     *)
(***************************************************************************)
Fn(f)    == [f |-> f]
Const(k) == [f |-> "const", k |-> k]

Fns == {Fn("identity"), Fn("length"), Fn("negate"), Fn("throwing"),
        Fn("isDefined")} \cup {Const(k) : k \in Val}

Call(fn, x) ==
  CASE fn.f = "identity"  -> Return(x)                      \* (x) => x
    [] fn.f = "length"    ->                                \* (x) => x.length
         IF x.t \in {"undefined", "null"} THEN Throw(TypeError)
         ELSE IF x.t = "string" THEN Return(Num(Len(x.s)))
         ELSE Return(Undefined)
    [] fn.f = "negate"    -> Return(Bool(~Truthy(x)))       \* (x) => !x
    [] fn.f = "throwing"  -> Throw(Error("boom"))  \* () => { throw new Error("boom") }
    [] fn.f = "isDefined" -> Return(Bool(x # Undefined /\ x # Null))
    [] OTHER              -> Return(fn.k)                   \* () => k

(***************************************************************************)
(* The Option container.                                                   *)
(***************************************************************************)
some(value) == [type |-> "some", value |-> value]

none == [type |-> "none"]

Options == {none} \cup {some(v) : v \in Val}

Messages == {"Value is None", ""}

Init ==
  /\ op = "start"
  /\ input = [arg |-> Undefined]
  /\ ret = Return(Undefined)
  /\ calls = 0
  /\ promise = [c \in 1..MaxResolves |-> [state |-> "none"]]
  /\ resolvePc = [c \in 1..MaxResolves |-> "idle"]
  /\ resolved = [c \in 1..MaxResolves |-> [state |-> "none"]]
  /\ fetchPc = "idle"
  /\ request = [url |-> ""]
  /\ fetchLog = <<>>
  /\ response = [state |-> "none"]
  /\ body = [state |-> "none"]
  /\ fetched = [state |-> "none"]

(***************************************************************************)
(* The synchronous helpers.  Each gives the completion its caller observes *)
(* and the number of times it invoked the function it was given.           *)
(***************************************************************************)
Outcome(r, n) == [ret |-> r, calls |-> n]

\* a variant of OptionalCatch that tests the result for truthiness, as
\* toOptional does
OptionalCatch_truthy(fn) ==
  LET r == Call(fn, Undefined) IN
  IF r.kind = "throw" \/ ~Truthy(r.value)
  THEN Outcome(Return([type |-> "none"]), 1)
  ELSE Outcome(Return([type |-> "some", value |-> r.value]), 1)

\* try { return { type: "some", value: fn() } } catch (e) { return { type: "none" } }
OptionalCatch(fn) ==
  LET r == Call(fn, Undefined) IN
  IF r.kind = "throw" THEN Outcome(Return([type |-> "none"]), 1)
  ELSE Outcome(Return([type |-> "some", value |-> r.value]), 1)

\* a variant of OptionalMap that guards the call to fn as the wrappers do
OptionalMap_catching(option, fn) ==
  IF option.type = "none" THEN Outcome(Return([type |-> "none"]), 0)
  ELSE LET r == Call(fn, option.value) IN
       IF r.kind = "throw" THEN Outcome(Return([type |-> "none"]), 1)
       ELSE Outcome(Return([type |-> "some", value |-> r.value]), 1)

\* if (option.type === "none") return { type: "none" }; return some(fn(option.value))
OptionalMap(option, fn) ==
  IF option.type = "none" THEN Outcome(Return([type |-> "none"]), 0)
  ELSE LET r == Call(fn, option.value) IN
       IF r.kind = "throw" THEN Outcome(r, 1)
       ELSE Outcome(Return(some(r.value)), 1)

\* a variant of toOptional without the try/catch
toOptional_uncaught(fn, args) ==
  LET result == Call(fn, args) IN
  IF result.kind = "throw" THEN Outcome(result, 1)
  ELSE IF Truthy(result.value)
       THEN Outcome(Return([type |-> "some", value |-> result.value]), 1)
  ELSE Outcome(Return([type |-> "none"]), 1)

\* toOptional(fn)(args): the function toOptional returns, applied to args
toOptional(fn, args) ==
  LET result == Call(fn, args) IN
  IF result.kind = "throw" THEN Outcome(Return(none), 1)
  ELSE IF Truthy(result.value) THEN Outcome(Return(some(result.value)), 1)
  ELSE Outcome(Return(none), 1)

\* a variant of optionalDefined built as toOptional((arg) => arg)
optionalDefined_truthy(arg) == toOptional(Fn("identity"), arg)

\* toOptional((arg) => arg !== undefined && arg !== null)
optionalDefined(arg) == toOptional(Fn("isDefined"), arg)

\* a variant of unwrap that tests the value, not the tag
unwrap_truthy(option) ==
  IF option.type = "none" \/ ~Truthy(option.value)
  THEN Outcome(Throw(Error("Cannot unwrap None")), 0)
  ELSE Outcome(Return(option.value), 0)

unwrap(option) ==
  IF option.type = "none" THEN Outcome(Throw(Error("Cannot unwrap None")), 0)
  ELSE Outcome(Return(option.value), 0)

unwrapOr(opt, fallback) ==
  IF opt.type = "some" THEN Outcome(Return(opt.value), 0)
  ELSE Outcome(Return(fallback), 0)

\* a variant of unwrapExpect that throws unwrap's generic error
unwrapExpect_generic(opt, message) ==
  IF opt.type = "some" THEN Outcome(Return(opt.value), 0)
  ELSE Outcome(Throw(Error("Cannot unwrap None")), 0)

unwrapExpect(opt, message) ==
  IF opt.type = "some" THEN Outcome(Return(opt.value), 0)
  ELSE Outcome(Throw(Error(message)), 0)

(***************************************************************************)
(* One action per synchronous helper: a caller calls it with arguments     *)
(* drawn from the input sets and observes the completion.                  *)
(***************************************************************************)
CallOptionalCatch ==
  \E fn \in Fns :
    LET out == OptionalCatch(fn) IN
    /\ op' = "OptionalCatch"
    /\ input' = [fn |-> fn]
    /\ ret' = out.ret
    /\ calls' = out.calls
    /\ UNCHANGED <<resolveVars, fetchVars>>

CallOptionalMap ==
  \E option \in Options, fn \in Fns :
    LET out == OptionalMap(option, fn) IN
    /\ op' = "OptionalMap"
    /\ input' = [option |-> option, fn |-> fn]
    /\ ret' = out.ret
    /\ calls' = out.calls
    /\ UNCHANGED <<resolveVars, fetchVars>>

CallToOptional ==
  \E fn \in Fns, args \in Val :
    LET out == toOptional(fn, args) IN
    /\ op' = "toOptional"
    /\ input' = [fn |-> fn, arg |-> args]
    /\ ret' = out.ret
    /\ calls' = out.calls
    /\ UNCHANGED <<resolveVars, fetchVars>>

CallOptionalDefined ==
  \E arg \in Val :
    LET out == optionalDefined(arg) IN
    /\ op' = "optionalDefined"
    /\ input' = [arg |-> arg]
    /\ ret' = out.ret
    /\ calls' = out.calls
    /\ UNCHANGED <<resolveVars, fetchVars>>

CallUnwrap ==
  \E v \in Val, isSome \in BOOLEAN :
    LET option == IF isSome THEN some(v) ELSE none
        out == unwrap(option) IN
    /\ op' = "unwrap"
    /\ input' = [option |-> option]
    /\ ret' = out.ret
    /\ calls' = out.calls
    /\ UNCHANGED <<resolveVars, fetchVars>>

CallUnwrapOr ==
  \E v \in Val, isSome \in BOOLEAN, fallback \in Val :
    LET opt == IF isSome THEN some(v) ELSE none
        out == unwrapOr(opt, fallback) IN
    /\ op' = "unwrapOr"
    /\ input' = [option |-> opt, fallback |-> fallback]
    /\ ret' = out.ret
    /\ calls' = out.calls
    /\ UNCHANGED <<resolveVars, fetchVars>>

CallUnwrapExpect ==
  \E v \in Val, isSome \in BOOLEAN, message \in Messages :
    LET opt == IF isSome THEN some(v) ELSE none
        out == unwrapExpect(opt, message) IN
    /\ op' = "unwrapExpect"
    /\ input' = [option |-> opt, message |-> message]
    /\ ret' = out.ret
    /\ calls' = out.calls
    /\ UNCHANGED <<resolveVars, fetchVars>>

Next ==
  \/ CallOptionalCatch
  \/ CallOptionalMap
  \/ CallToOptional
  \/ CallOptionalDefined
  \/ CallUnwrap
  \/ CallUnwrapOr
  \/ CallUnwrapExpect

Spec == Init /\ [][Next]_vars

(***************************************************************************)
(* Properties of the synchronous helpers, checked under Spec.              *)
(***************************************************************************)
IsDefined(v) == v # Undefined /\ v # Null

\* C1 as stated: optionalDefined returns none for null, for undefined and for
\* 0, and Some(true) for the string "x".
C1_AsStated ==
  op = "optionalDefined" =>
    /\ input.arg \in {Null, Undefined, Num(0)} => ret = Return(none)
    /\ input.arg = Str("x") => ret = Return(some(Bool(TRUE)))

\* C1 (amended): optionalDefined returns none for null and for undefined, and
\* returns Some(true) for 0 as it does for the string "x": 0 is defined, so it
\* is told apart from absence.
C1_OptionalDefinedCases ==
  op = "optionalDefined" =>
    /\ input.arg \in {Null, Undefined} => ret = Return(none)
    /\ input.arg \in {Num(0), Str("x")} => ret = Return(some(Bool(TRUE)))

C1_Witness ==
  /\ op = "optionalDefined"
  /\ input.arg = Num(0)
  /\ ret = Return(some(Bool(TRUE)))

\* C2: for every argument arg, optionalDefined(arg) returns a Some wrapping arg
\* itself when arg is neither null nor undefined, and None otherwise.
C2_WrapsTheArgument ==
  op = "optionalDefined" =>
    ret = Return(IF IsDefined(input.arg) THEN some(input.arg) ELSE none)

\* C3: toOptional(fn)(x) returns Some(fn(x)) when fn(x) is truthy, and none both
\* when fn(x) is falsy (0, "", false, null, undefined) and when fn(x) throws; the
\* two cases give the identical result and the wrapped function never throws.
C3_ToOptionalCollapses ==
  op = "toOptional" =>
    LET r == Call(input.fn, input.arg) IN
    /\ ret.kind = "return"
    /\ calls = 1
    /\ r.kind = "throw" => ret.value = none
    /\ (r.kind = "return"
          /\ r.value \in {Num(0), Str(""), Bool(FALSE), Null, Undefined})
         => ret.value = none
    /\ (r.kind = "return" /\ ~Truthy(r.value)) => ret.value = none
    /\ (r.kind = "return" /\ Truthy(r.value)) => ret.value = some(r.value)

C3_Witness ==
  /\ op = "toOptional"
  /\ Call(input.fn, input.arg).kind = "throw"
  /\ ret = Return(none)

\* C6: OptionalMap on a None input returns None and never invokes fn; on Some(v)
\* it invokes fn exactly once on v and returns Some(fn(v)); and if fn throws on
\* a Some input the exception reaches the caller, not converted to None.
C6_MapOption ==
  op = "OptionalMap" =>
    IF input.option.type = "none"
    THEN ret = Return(none) /\ calls = 0
    ELSE LET r == Call(input.fn, input.option.value) IN
         /\ calls = 1
         /\ r.kind = "return" => ret = Return(some(r.value))
         /\ r.kind = "throw" => ret = r

C6_Witness ==
  /\ op = "OptionalMap"
  /\ input.option.type = "some"
  /\ Call(input.fn, input.option.value).kind = "throw"
  /\ ret.kind = "throw"
  /\ calls = 1

\* C7: for every value v, falsy values included, every fallback and every
\* message: unwrap(some(v)), unwrapOr(some(v), fallback) and
\* unwrapExpect(some(v), message) all return v and none of them fails.
C7_UnwrapSome ==
  (op \in {"unwrap", "unwrapOr", "unwrapExpect"} /\ input.option.type = "some")
    => ret = Return(input.option.value)

C7_Witness ==
  /\ op = "unwrap"
  /\ input.option = some(Num(0))
  /\ ret = Return(Num(0))

\* C8: on a None input, unwrap fails with the message "Cannot unwrap None",
\* unwrapExpect fails with an error carrying exactly the caller's message, and
\* unwrapOr never fails and returns exactly the fallback.
C8_UnwrapNone ==
  (op \in {"unwrap", "unwrapOr", "unwrapExpect"} /\ input.option = none) =>
    /\ op = "unwrap" =>
         ret.kind = "throw" /\ ret.value.message = "Cannot unwrap None"
    /\ op = "unwrapExpect" =>
         ret.kind = "throw" /\ ret.value.message = input.message
    /\ op = "unwrapOr" => ret = Return(input.fallback)

C8_Witness ==
  /\ op = "unwrapExpect"
  /\ input.option = none
  /\ input.message = "Value is None"
  /\ ret = Throw(Error("Value is None"))

\* C9: OptionalCatch invokes fn exactly once and returns Some(r) when fn returns
\* r normally, for every r including falsy values, and None when fn raises; the
\* error never reaches the caller.
C9_CatchToOption ==
  op = "OptionalCatch" =>
    LET r == Call(input.fn, Undefined) IN
    /\ calls = 1
    /\ ret.kind = "return"
    /\ r.kind = "return" => ret.value = some(r.value)
    /\ r.kind = "throw" => ret.value = none

C9_Witness ==
  /\ op = "OptionalCatch"
  /\ input.fn = Const(Num(0))
  /\ ret = Return(some(Num(0)))

(***************************************************************************)
(* Promises: the state of a promise is none (not created yet), pending,    *)
(* fulfilled with a value, or rejected with a reason.                      *)
(***************************************************************************)
Pending      == [state |-> "pending"]
Fulfilled(v) == [state |-> "fulfilled", value |-> v]
Rejected(e)  == [state |-> "rejected", reason |-> e]

Settled(p) == p.state \in {"fulfilled", "rejected"}

\* what a promise passed to optionalResolve may be rejected with
Reasons == {Error("boom"), Str("x")}

\* the promises a caller may pass: pending, or settled already
Promises ==
  {Pending} \cup {Fulfilled(v) : v \in Val} \cup {Rejected(e) : e \in Reasons}

(***************************************************************************)
(* optionalResolve.  The async function runs to `await promise` when it is *)
(* called and returns a pending promise; once the awaited promise has      *)
(* settled its continuation runs and settles the promise it returned.      *)
(***************************************************************************)
Resolves == 1..MaxResolves

\* a variant of optionalResolve without the try/catch
optionalResolve_uncaught(p) ==
  IF p.state = "fulfilled" THEN Fulfilled([type |-> "some", value |-> p.value])
  ELSE Rejected(p.reason)

\* try { return some(await promise) } catch (e) { return { type: "none" } },
\* from the settled promise p to the settlement of the promise returned
optionalResolve(p) ==
  IF p.state = "fulfilled" THEN Fulfilled(some(p.value))
  ELSE Fulfilled([type |-> "none"])

ResolveCall(c) ==
  /\ resolvePc[c] = "idle"
  /\ \E p \in Promises : promise' = [promise EXCEPT ![c] = p]
  /\ resolvePc' = [resolvePc EXCEPT ![c] = "awaiting"]
  /\ resolved' = [resolved EXCEPT ![c] = Pending]
  /\ UNCHANGED <<syncVars, fetchVars>>

\* the awaited operation resolves (the caller's side, not this library's)
PromiseFulfil(c) ==
  /\ promise[c] = Pending
  /\ \E v \in Val : promise' = [promise EXCEPT ![c] = Fulfilled(v)]
  /\ UNCHANGED <<resolvePc, resolved, syncVars, fetchVars>>

\* the awaited operation rejects
PromiseReject(c) ==
  /\ promise[c] = Pending
  /\ \E e \in Reasons : promise' = [promise EXCEPT ![c] = Rejected(e)]
  /\ UNCHANGED <<resolvePc, resolved, syncVars, fetchVars>>

\* the continuation after `await promise`
ResolveResume(c) ==
  /\ resolvePc[c] = "awaiting"
  /\ Settled(promise[c])
  /\ resolved' = [resolved EXCEPT ![c] = optionalResolve(promise[c])]
  /\ resolvePc' = [resolvePc EXCEPT ![c] = "done"]
  /\ UNCHANGED <<promise, syncVars, fetchVars>>

ResolveNext ==
  \E c \in Resolves :
    \/ ResolveCall(c)
    \/ PromiseFulfil(c)
    \/ PromiseReject(c)
    \/ ResolveResume(c)

\* The job queue runs every continuation that is ready; nothing makes the
\* awaited operation settle.
ResolveSpec ==
  Init /\ [][ResolveNext]_vars /\ \A c \in Resolves : WF_vars(ResolveResume(c))

\* C10: optionalResolve completes only after the awaited operation settles:
\* if the operation resolves with r the call eventually settles to Some(r), if
\* it rejects the call eventually settles to None and never rejects itself, and
\* while the operation has not settled the call has not returned.
C10_ResolveToOption ==
  /\ [](\A c \in Resolves :
          /\ resolved[c].state \in {"none", "pending", "fulfilled"}
          /\ resolved[c].state = "fulfilled" =>
               /\ promise[c].state = "fulfilled" =>
                    resolved[c].value = some(promise[c].value)
               /\ promise[c].state = "rejected" => resolved[c].value = none
               /\ promise[c].state # "pending"
          /\ promise[c] = Pending => resolved[c] = Pending)
  /\ \A c \in Resolves :
       (resolvePc[c] = "awaiting" /\ promise[c].state = "fulfilled")
         ~> (/\ promise[c].state = "fulfilled"
             /\ resolved[c] = Fulfilled(some(promise[c].value)))
  /\ \A c \in Resolves :
       (resolvePc[c] = "awaiting" /\ promise[c].state = "rejected")
         ~> (resolved[c] = Fulfilled(none))

C10_Witness ==
  /\ resolvePc[1] = "done"
  /\ promise[1] = Rejected(Str("x"))
  /\ resolved[1] = Fulfilled(none)
  /\ resolvePc[2] = "awaiting"
  /\ promise[2] = Pending
  /\ resolved[2] = Pending

(***************************************************************************)
(* fetchWithOption.  The platform HTTP client and the response's json()    *)
(* are the environment: the client may throw, reject, or answer with any   *)
(* status; json() may parse the body or fail.                              *)
(***************************************************************************)
Urls    == {"https://api.example.com", "/items"}
Methods == {Undefined, Str("GET"), Str("POST")}
Bodies  == {Undefined, Str("{\"a\":1}")}

\* Record<string, string>: the headers a caller supplies
HeaderSets ==
  { <<>>,
    [x \in {"Content-Type"} |-> "text/plain"],
    [x \in {"Authorization"} |-> "Bearer t"],
    [x \in {"Content-Type", "Authorization"} |->
       IF x = "Content-Type" THEN "text/plain" ELSE "Bearer t"] }

\* the Request type: { url, headers, method?, body? }
Requests ==
  [url : Urls, headers : HeaderSets, method : Methods, body : Bodies]

\* { ...a, ...b }: the keys of both, b's value where both have the key
Spread(a, b) ==
  [k \in DOMAIN a \cup DOMAIN b |-> IF k \in DOMAIN b THEN b[k] ELSE a[k]]

DefaultHeaders == [x \in {"Content-Type"} |-> "application/json"]

\* the arguments of fetch(request.url, { method, headers })
FetchArgs(req) ==
  [url  |-> req.url,
   init |-> [method  |-> req.method,
             headers |-> Spread(DefaultHeaders, req.headers)]]

Statuses == {200, 201, 404, 500}

\* a Response: ok is true for the statuses 200..299
Response(status) == [status |-> status, ok |-> status \in 200..299]

NetworkError == [name |-> "TypeError", message |-> "Failed to fetch"]
SyntaxError  == [name |-> "SyntaxError", message |-> "Unexpected token"]

\* what response.json() may parse the body to
JsonData == {Obj("a"), Null, Num(0)}

\* a variant of AfterFetch without the `if (!response.ok)` test
AfterFetch_nostatus(r) ==
  IF r.state = "rejected"
  THEN [pc |-> "done", fetched |-> Fulfilled([type |-> "none"])]
  ELSE [pc |-> "awaitJson", fetched |-> Pending]

\* the continuation after `await fetch(...)`: the step fetchWithOption takes
\* once the promise r that fetch returned has settled
AfterFetch(r) ==
  IF r.state = "rejected" THEN [pc |-> "done", fetched |-> Fulfilled(none)]
  ELSE IF ~r.value.ok THEN [pc |-> "done", fetched |-> Fulfilled(none)]
  ELSE [pc |-> "awaitJson", fetched |-> Pending]

\* the continuation after `await response.json()`
AfterJson(b) ==
  IF b.state = "rejected" THEN Fulfilled(none)
  ELSE Fulfilled(some(b.value))

\* fetchWithOption(request) up to `await fetch(...)`
FetchCall ==
  /\ fetchPc = "idle"
  /\ \E req \in Requests :
       /\ request' = req
       /\ fetchLog' = Append(fetchLog, FetchArgs(req))
  /\ response' = Pending
  /\ fetchPc' = "awaitFetch"
  /\ fetched' = Pending
  /\ UNCHANGED <<body, syncVars, resolveVars>>

\* fetchWithOption(request) when fetch itself throws: the catch block runs
FetchCallThrows ==
  /\ fetchPc = "idle"
  /\ \E req \in Requests :
       /\ request' = req
       /\ fetchLog' = Append(fetchLog, FetchArgs(req))
  /\ response' = [state |-> "threw", reason |-> NetworkError]
  /\ fetchPc' = "done"
  /\ fetched' = Fulfilled(none)
  /\ UNCHANGED <<body, syncVars, resolveVars>>

\* the server answers
NetworkRespond ==
  /\ fetchPc = "awaitFetch"
  /\ response = Pending
  /\ \E status \in Statuses : response' = Fulfilled(Response(status))
  /\ UNCHANGED <<fetchPc, request, fetchLog, body, fetched, syncVars, resolveVars>>

\* the network fails
NetworkFail ==
  /\ fetchPc = "awaitFetch"
  /\ response = Pending
  /\ response' = Rejected(NetworkError)
  /\ UNCHANGED <<fetchPc, request, fetchLog, body, fetched, syncVars, resolveVars>>

FetchResume ==
  /\ fetchPc = "awaitFetch"
  /\ Settled(response)
  /\ LET step == AfterFetch(response) IN
       /\ fetchPc' = step.pc
       /\ fetched' = step.fetched
       /\ body' = IF step.pc = "awaitJson" THEN Pending ELSE body
  /\ UNCHANGED <<request, fetchLog, response, syncVars, resolveVars>>

JsonParses ==
  /\ fetchPc = "awaitJson"
  /\ body = Pending
  /\ \E data \in JsonData : body' = Fulfilled(data)
  /\ UNCHANGED <<fetchPc, request, fetchLog, response, fetched, syncVars, resolveVars>>

JsonFails ==
  /\ fetchPc = "awaitJson"
  /\ body = Pending
  /\ body' = Rejected(SyntaxError)
  /\ UNCHANGED <<fetchPc, request, fetchLog, response, fetched, syncVars, resolveVars>>

JsonResume ==
  /\ fetchPc = "awaitJson"
  /\ Settled(body)
  /\ fetched' = AfterJson(body)
  /\ fetchPc' = "done"
  /\ UNCHANGED <<request, fetchLog, response, body, syncVars, resolveVars>>

FetchNext ==
  \/ FetchCall
  \/ FetchCallThrows
  \/ NetworkRespond
  \/ NetworkFail
  \/ FetchResume
  \/ JsonParses
  \/ JsonFails
  \/ JsonResume

FetchSpec == Init /\ [][FetchNext]_vars

\* C4: fetchWithOption never raises to its caller: it yields none when the
\* HTTP client throws, none when the response status is not a success
\* (whatever the status), none when parsing the body fails, and Some(parsed
\* body) when the status is a success and the body parses.
C4_FetchOutcome ==
  /\ fetched.state \in {"none", "pending", "fulfilled"}
  /\ fetchPc # "done" => fetched.state \in {"none", "pending"}
  /\ fetchPc = "done" =>
       /\ fetched.state = "fulfilled"
       /\ response.state \in {"threw", "rejected"} => fetched.value = none
       /\ (response.state = "fulfilled"
             /\ response.value.status \notin 200..299) => fetched.value = none
       /\ (response.state = "fulfilled" /\ response.value.status \in 200..299) =>
            /\ body.state = "rejected" => fetched.value = none
            /\ body.state = "fulfilled" => fetched.value = some(body.value)
            /\ Settled(body)

C4_Witness ==
  /\ fetchPc = "done"
  /\ response = Fulfilled(Response(200))
  /\ body = Fulfilled(Obj("a"))
  /\ fetched = Fulfilled(some(Obj("a")))

\* the body the call to fetch carries (an init without one carries none)
CarriedBody(init) == IF "body" \in DOMAIN init THEN init.body ELSE Undefined

\* what does hold of that call: everything C5 says but the body
CallCarriesAllButBody ==
  fetchPc # "idle" =>
    /\ Len(fetchLog) = 1
    /\ fetchLog[1].url = request.url
    /\ fetchLog[1].init.method = request.method
    /\ \A k \in DOMAIN request.headers :
         fetchLog[1].init.headers[k] = request.headers[k]
    /\ DOMAIN fetchLog[1].init.headers = {"Content-Type"} \cup DOMAIN request.headers
    /\ "Content-Type" \notin DOMAIN request.headers =>
         fetchLog[1].init.headers["Content-Type"] = "application/json"

\* C5: the single call fetchWithOption makes to the platform HTTP client
\* carries the request's url, its method, its body, and headers equal to the
\* default {Content-Type: application/json} merged with the caller's headers,
\* a caller's header winning on a key collision.
C5_CarriesRequest ==
  /\ CallCarriesAllButBody
  /\ fetchPc # "idle" => CarriedBody(fetchLog[1].init) = request.body

====
